---- MODULE Spec2Model ----
(***************************************************************************)
(* Model of bmp_generator.py: the row producer _generate_pixel_rows and    *)
(* the encoder generate_bmp, which validates its arguments, opens the      *)
(* destination, writes the 14-byte file header, the 40-byte info header    *)
(* and one padded row per row pulled from the producer.                    *)
(***************************************************************************)
EXTENDS Integers, Sequences, FiniteSets, TLC

(***************************************************************************)
(* Bounds of the explored inputs.                                          *)
(***************************************************************************)
MaxWidth == 9
MaxHeight == 3
\* Largest width and height of the Checkerboard runs.
MaxCheckerSize == 33

(***************************************************************************)
(* Python float arithmetic (IEEE-754 binary64, round to nearest, ties to   *)
(* even) on the non-negative values the producer computes.  A value is a   *)
(* fixed-point number: NumLimbs limbs of LimbBits bits, least significant  *)
(* first, the last limb holding the integer part and the FracLimbs limbs   *)
(* before it the fraction.  Every double that occurs (ratios k/n with n    *)
(* below 2^10, products and sums below 2^14) is exactly representable in   *)
(* this grid, so only Round53 rounds.                                      *)
(***************************************************************************)
LimbBits == 14
FracLimbs == 5
NumLimbs == FracLimbs + 1
LimbBase == 2^LimbBits
MantissaBits == 53

\* The fixed-point value of the integer n.
FromInt(n) == [j \in 1..NumLimbs |-> IF j = NumLimbs THEN n ELSE 0]

\* int(v) of a non-negative float v: truncation toward zero.
FloatToInt(X) == X[NumLimbs]

RECURSIVE AddCarry(_, _, _, _)
AddCarry(X, Y, j, carry) ==
    IF j > NumLimbs THEN << >>
    ELSE LET s == X[j] + Y[j] + carry
         IN  << s % LimbBase >> \o AddCarry(X, Y, j + 1, s \div LimbBase)

\* Exact X + Y.
BigAdd(X, Y) == AddCarry(X, Y, 1, 0)

RECURSIVE SubBorrow(_, _, _, _)
SubBorrow(X, Y, j, borrow) ==
    IF j > NumLimbs THEN << >>
    ELSE LET s == X[j] - Y[j] - borrow
         IN  << s % LimbBase >> \o SubBorrow(X, Y, j + 1, IF s < 0 THEN 1 ELSE 0)

\* Exact X - Y, for X >= Y.
BigSub(X, Y) == SubBorrow(X, Y, 1, 0)

RECURSIVE MulCarry(_, _, _, _)
MulCarry(X, k, j, carry) ==
    IF j > NumLimbs THEN << >>
    ELSE LET s == X[j] * k + carry
         IN  << s % LimbBase >> \o MulCarry(X, k, j + 1, s \div LimbBase)

\* Exact k * X for a small non-negative integer k.
BigMulSmall(X, k) == MulCarry(X, k, 1, 0)

\* Limbs j..1 (most significant first) of the quotient rem * LimbBase^j / d,
\* returned least significant first, with the final remainder appended.
RECURSIVE DivLimbs(_, _, _)
DivLimbs(rem, d, j) ==
    IF j = 0 THEN << rem >>
    ELSE LET cur == rem * LimbBase
         IN  DivLimbs(cur % d, d, j - 1) \o << cur \div d >>

\* floor(n / d) on the grid and whether a non-zero remainder was dropped.
BigDiv(n, d) ==
    LET t == DivLimbs(n % d, d, FracLimbs)
    IN  [val |-> [j \in 1..NumLimbs |->
                     IF j = NumLimbs THEN n \div d ELSE t[j + 1]],
         sticky |-> t[1] # 0]

RECURSIVE IntBitLen(_)
IntBitLen(n) == IF n = 0 THEN 0 ELSE 1 + IntBitLen(n \div 2)

\* Number of significant bits of X (0 for zero).
BitLen(X) ==
    IF \A j \in 1..NumLimbs : X[j] = 0 THEN 0
    ELSE LET top == CHOOSE j \in 1..NumLimbs :
                        X[j] # 0 /\ \A k \in (j + 1)..NumLimbs : X[k] = 0
         IN  (top - 1) * LimbBits + IntBitLen(X[top])

\* Bit i (0 = least significant) of X.
BitAt(X, i) == (X[(i \div LimbBits) + 1] \div 2^(i % LimbBits)) % 2

\* Whether any of the n low bits of X is set.
LowBitsSet(X, n) ==
    \/ \E j \in 1..(n \div LimbBits) : X[j] # 0
    \/ /\ n % LimbBits # 0
       /\ X[(n \div LimbBits) + 1] % 2^(n % LimbBits) # 0

\* X with its n low bits cleared.
ClearLow(X, n) ==
    [j \in 1..NumLimbs |->
        IF j <= n \div LimbBits THEN 0
        ELSE IF j = (n \div LimbBits) + 1
             THEN X[j] - (X[j] % 2^(n % LimbBits))
             ELSE X[j]]

\* 2^n as a grid value.
BigPow2(n) ==
    [j \in 1..NumLimbs |-> IF j = (n \div LimbBits) + 1 THEN 2^(n % LimbBits) ELSE 0]

\* The double nearest to X (+ a dropped positive tail when sticky), ties to even.
Round53(X, sticky) ==
    LET cut == BitLen(X) - MantissaBits
    IN  IF cut <= 0 THEN X
        ELSE LET roundUp == /\ BitAt(X, cut - 1) = 1
                            /\ \/ sticky
                               \/ LowBitsSet(X, cut - 1)
                               \/ BitAt(X, cut) = 1
             IN  IF roundUp THEN BigAdd(ClearLow(X, cut), BigPow2(cut))
                 ELSE ClearLow(X, cut)

\* a / b for integers a >= 0, b > 0 (Python true division).
FloatDiv(a, b) == LET q == BigDiv(a, b) IN Round53(q.val, q.sticky)

\* 1 - r for a float 0 <= r <= 1.
FloatOneMinus(r) == Round53(BigSub(FromInt(1), r), FALSE)

\* k * v for an int k >= 0 and a float v.
FloatMulInt(k, v) == Round53(BigMulSmall(v, k), FALSE)

FloatAdd(u, v) == Round53(BigAdd(u, v), FALSE)


(***************************************************************************)
(* Inputs.                                                                 *)
(***************************************************************************)
PATTERNS ==
    {"Solid Color", "RGB Stripes", "Checkerboard", "Vertical Gradient",
     "Horizontal Gradient", "Color Bars", "Grayscale Bars"}

\* Pattern names a caller may pass: the recognised ones and one that is not.
PatternInputs == PATTERNS \cup {"solid color"}

\* Pixel orders a caller may pass.
OrderInputs == {"BGR", "RGB", "rgb", "XYZ"}

\* str.upper() on the pixel orders above.
Upper(s) ==
    CASE s = "rgb" -> "RGB"
      [] s = "bgr" -> "BGR"
      [] s = "xyz" -> "XYZ"
      [] OTHER -> s

\* A key missing from the options dictionary.
Absent == << >>

\* Colors a caller may supply; the last one has a channel above 255.
Colors == {<<10, 20, 30>>, <<200, 100, 0>>, <<0, 300, 7>>}

Keys == {"color", "color1", "color2", "color3", "start_color", "end_color"}

\* The option keys the producer reads for a pattern.
KeysOf(p) ==
    CASE p = "Solid Color" -> {"color"}
      [] p = "RGB Stripes" -> {"color1", "color2", "color3"}
      [] p = "Checkerboard" -> {"color1", "color2"}
      [] p \in {"Vertical Gradient", "Horizontal Gradient"} -> {"start_color", "end_color"}
      [] OTHER -> {}

\* Option dictionaries for a pattern: each key it reads is absent or a color.
OptionsFor(p) ==
    {[k \in Keys |-> IF k \in KeysOf(p) THEN f[k] ELSE Absent] :
        f \in [KeysOf(p) -> Colors \cup {Absent}]}

\* dict.get(key, default)
Get(opts, key, default) == IF opts[key] = Absent THEN default ELSE opts[key]

(***************************************************************************)
(* _generate_pixel_rows                                                    *)
(***************************************************************************)
CHECKER_SIZE == 16

colors_rgb ==
    << <<255, 255, 255>>, <<255, 255, 0>>, <<0, 255, 255>>, <<0, 255, 0>>,
       <<255, 0, 255>>, <<255, 0, 0>>, <<0, 0, 255>>, <<0, 0, 0>> >>

Min(a, b) == IF a < b THEN a ELSE b

\* struct.pack('BBB', *color) succeeds only on channels in 0..255.
Packable(color) == \A i \in 1..3 : color[i] >= 0 /\ color[i] <= 255

stripe1_end_x(w) == w \div 3
\* Variant: the second band ends at two thirds of the width.
stripe2_end_x_TwoThirds(w) == (2 * w) \div 3
stripe2_end_x(w) == 2 * (w \div 3)

\* min(int(x // (width / 8)), 7): width / 8 is exact in binary floating
\* point, so the floor division is the exact floor of 8x / width.
bar_index(x, w) == Min((8 * x) \div w, 7)

\* Variant: the gray step rounded to nearest instead of truncated.
GrayVal_Rounded(index) == 255 - ((index * 255 * 2 + 7) \div 14)

\* 255 - int(bar_index * (255 / 7))
GrayVal(index) == 255 - FloatToInt(FloatMulInt(index, FloatDiv(255, 7)))

\* Variant: a degenerate axis gets ratio 0.0.
Ratio_ZeroWhenDegenerate(k, n) == IF n > 1 THEN FloatDiv(k, n - 1) ELSE FromInt(0)

\* k / (n - 1) if n > 1 else 1.0
Ratio(k, n) == IF n > 1 THEN FloatDiv(k, n - 1) ELSE FromInt(1)

\* tuple(int(s * (1 - ratio) + e * ratio) for s, e in zip(start, end))
Interpolate(start, end, ratio) ==
    [i \in 1..3 |->
        FloatToInt(FloatAdd(FloatMulInt(start[i], FloatOneMinus(ratio)),
                            FloatMulInt(end[i], ratio)))]

\* current_color of column x in the patterns that are constant vertically.
CurrentColor(x, w, p, opts) ==
    CASE p = "Solid Color" -> Get(opts, "color", <<0, 0, 0>>)
      [] p = "RGB Stripes" ->
            IF x < stripe1_end_x(w) THEN Get(opts, "color1", <<255, 0, 0>>)
            ELSE IF x < stripe2_end_x(w) THEN Get(opts, "color2", <<0, 255, 0>>)
            ELSE Get(opts, "color3", <<0, 0, 255>>)
      [] p = "Color Bars" -> colors_rgb[bar_index(x, w) + 1]
      [] p = "Grayscale Bars" ->
            LET val == GrayVal(bar_index(x, w)) IN <<val, val, val>>
      [] p = "Horizontal Gradient" ->
            Interpolate(Get(opts, "start_color", <<0, 0, 0>>),
                        Get(opts, "end_color", <<255, 255, 255>>),
                        Ratio(x, w))

\* Color of column x in the two Checkerboard row templates.
Row1Color(x, opts) ==
    IF (x \div CHECKER_SIZE) % 2 = 0
    THEN Get(opts, "color1", <<255, 255, 255>>) ELSE Get(opts, "color2", <<0, 0, 0>>)
\* Variant: the second template is not inverted.
Row2Color_NotInverted(x, opts) ==
    IF (x \div CHECKER_SIZE) % 2 = 0
    THEN Get(opts, "color1", <<255, 255, 255>>) ELSE Get(opts, "color2", <<0, 0, 0>>)
Row2Color(x, opts) ==
    IF (x \div CHECKER_SIZE) % 2 = 0
    THEN Get(opts, "color2", <<0, 0, 0>>) ELSE Get(opts, "color1", <<255, 255, 255>>)

\* Row color of row y of the Vertical Gradient.
GradientRowColor(y, h, opts) ==
    Interpolate(Get(opts, "start_color", <<0, 0, 0>>),
                Get(opts, "end_color", <<255, 255, 255>>),
                Ratio(y, h))

\* The packed bytes of the pixels colorOf(0), ..., colorOf(w - 1).
RECURSIVE PackFrom(_, _, _)
PackFrom(colorOf, x, w) ==
    IF x >= w THEN << >> ELSE colorOf[x] \o PackFrom(colorOf, x + 1, w)
\* Variant: the row loop starts at column 1.
PackRow_DropFirst(colorOf, w) == PackFrom(colorOf, 1, w)
PackRow(colorOf, w) == PackFrom(colorOf, 0, w)

\* The generator's frame before its first row is requested.
NewGenerator ==
    [started |-> FALSE, y |-> 0, row_data |-> << >>, row1 |-> << >>, row2 |-> << >>]

\* One next() on the generator g: a row, exhaustion or a struct.error.
GenNext(g, w, h, p, opts) ==
    IF p \notin {"Vertical Gradient", "Checkerboard"} THEN
        LET colorOf == [x \in 0..(w - 1) |-> CurrentColor(x, w, p, opts)]
            row == IF g.started THEN g.row_data ELSE PackRow(colorOf, w)
        IN  IF ~g.started /\ \E x \in 0..(w - 1) : ~Packable(colorOf[x])
            THEN [kind |-> "error", row |-> << >>, gen |-> g]
            ELSE IF g.y >= h
            THEN [kind |-> "stop", row |-> << >>,
                  gen |-> [g EXCEPT !.started = TRUE, !.row_data = row]]
            ELSE [kind |-> "row", row |-> row,
                  gen |-> [g EXCEPT !.started = TRUE, !.row_data = row, !.y = g.y + 1]]
    ELSE IF p = "Vertical Gradient" THEN
        IF g.y >= h
        THEN [kind |-> "stop", row |-> << >>, gen |-> [g EXCEPT !.started = TRUE]]
        ELSE LET current_color == GradientRowColor(g.y, h, opts)
             IN  IF ~Packable(current_color)
                 THEN [kind |-> "error", row |-> << >>, gen |-> g]
                 ELSE [kind |-> "row",
                       row |-> PackRow([x \in 0..(w - 1) |-> current_color], w),
                       gen |-> [g EXCEPT !.started = TRUE, !.y = g.y + 1]]
    ELSE
        LET c1 == [x \in 0..(w - 1) |-> Row1Color(x, opts)]
            c2 == [x \in 0..(w - 1) |-> Row2Color(x, opts)]
            row1 == IF g.started THEN g.row1 ELSE PackRow(c1, w)
            row2 == IF g.started THEN g.row2 ELSE PackRow(c2, w)
            g2 == [g EXCEPT !.started = TRUE, !.row1 = row1, !.row2 = row2]
        IN  IF ~g.started /\ \E x \in 0..(w - 1) : ~Packable(c1[x]) \/ ~Packable(c2[x])
            THEN [kind |-> "error", row |-> << >>, gen |-> g]
            ELSE IF g.y >= h
            THEN [kind |-> "stop", row |-> << >>, gen |-> g2]
            ELSE [kind |-> "row",
                  row |-> IF (g.y \div CHECKER_SIZE) % 2 = 0 THEN row1 ELSE row2,
                  gen |-> [g2 EXCEPT !.y = g.y + 1]]

(***************************************************************************)
(* generate_bmp                                                            *)
(***************************************************************************)
VARIABLES
    call,         \* the arguments of the call
    pixel_order,  \* the local pixel_order (upper-cased by validation)
    pc,           \* position of the call
    raised,       \* the exception the call ended with, or "none"
    f_opens,      \* number of times the destination was opened
    f_closed,     \* whether the opened destination has been closed
    f_data,       \* bytes of the destination
    gen,          \* frame of the row generator
    yielded       \* rows the generator has yielded, in order

vars == <<call, pixel_order, pc, raised, f_opens, f_closed, f_data, gen, yielded>>

FILE_HEADER_SIZE == 14
INFO_HEADER_SIZE == 40
BITS_PER_PIXEL == 24
bytes_per_pixel == BITS_PER_PIXEL \div 8

row_size_unpadded(w) == w * bytes_per_pixel
\* Variant: padding without the outer modulo.
padding_NoWrap(w) == 4 - (row_size_unpadded(w) % 4)
padding(w) == (4 - (row_size_unpadded(w) % 4)) % 4
row_size_padded(w) == row_size_unpadded(w) + padding(w)
image_data_size(w, h) == row_size_padded(w) * h
file_size(w, h) == FILE_HEADER_SIZE + INFO_HEADER_SIZE + image_data_size(w, h)

\* struct.pack('<H', n) and struct.pack('<L', n) / struct.pack('<l', n) for
\* 0 <= n < 2^31: little-endian bytes.
PackH(n) == << n % 256, (n \div 256) % 256 >>
PackL(n) == << n % 256, (n \div 256) % 256, (n \div 65536) % 256, (n \div 16777216) % 256 >>

\* The five writes of the file header.
FileHeaderBytes(w, h) ==
    << 66, 77 >> \o PackL(file_size(w, h)) \o PackH(0) \o PackH(0)
        \o PackL(FILE_HEADER_SIZE + INFO_HEADER_SIZE)

\* Variant: height written before width.
InfoHeaderBytes_Swapped(w, h) ==
    PackL(INFO_HEADER_SIZE) \o PackL(h) \o PackL(w) \o PackH(1) \o PackH(BITS_PER_PIXEL)
        \o PackL(0) \o PackL(image_data_size(w, h)) \o PackL(0) \o PackL(0)
        \o PackL(0) \o PackL(0)

\* The eleven writes of the info header.
InfoHeaderBytes(w, h) ==
    PackL(INFO_HEADER_SIZE) \o PackL(w) \o PackL(h) \o PackH(1) \o PackH(BITS_PER_PIXEL)
        \o PackL(0) \o PackL(image_data_size(w, h)) \o PackL(0) \o PackL(0)
        \o PackL(0) \o PackL(0)

\* b'\x00' * padding
padding_bytes(w) == [i \in 1..padding(w) |-> 0]

\* The row with the first and third byte of every pixel exchanged.
RECURSIVE SwapFrom(_, _)
SwapFrom(rgb_row, p) ==
    IF p > Len(rgb_row) THEN << >>
    ELSE << rgb_row[p + 2], rgb_row[p + 1], rgb_row[p] >> \o SwapFrom(rgb_row, p + 3)
\* Variant: no exchange.
bgr_row_Unswapped(rgb_row) == rgb_row
bgr_row(rgb_row) == SwapFrom(rgb_row, 1)

\* What one iteration of the pixel loop writes for a produced row.
RowBytes(rgb_row, order, w) ==
    IF order = "BGR" THEN bgr_row(rgb_row) \o padding_bytes(w)
    ELSE rgb_row \o padding_bytes(w)

\* options = pattern_options or {}
options == call.pattern_options

\* Variant: the pixel order is not checked.
ArgsValid_NoOrderCheck ==
    /\ call.width_is_int /\ call.width > 0
    /\ call.height_is_int /\ call.height > 0
    /\ call.pattern \in PATTERNS

\* The three argument checks pass.
ArgsValid ==
    /\ call.width_is_int /\ call.width > 0
    /\ call.height_is_int /\ call.height > 0
    /\ Upper(call.pixel_order) \in {"BGR", "RGB"}
    /\ call.pattern \in PATTERNS

\* Widths and heights a caller may pass; a value that is not an int stands
\* for a float such as 2.5.
Dimension(max) ==
    {[is_int |-> TRUE, val |-> n] : n \in -1..max} \cup {[is_int |-> FALSE, val |-> 2]}

Init ==
    /\ \E w \in Dimension(MaxWidth), h \in Dimension(MaxHeight),
          p \in PatternInputs, o \in OrderInputs :
          \E opts \in OptionsFor(p) :
             call = [width |-> w.val, width_is_int |-> w.is_int,
                     height |-> h.val, height_is_int |-> h.is_int,
                     pattern |-> p, pixel_order |-> o, pattern_options |-> opts]
    /\ pixel_order = call.pixel_order
    /\ pc = "validate"
    /\ raised = "none"
    /\ f_opens = 0
    /\ f_closed = FALSE
    /\ f_data = << >>
    /\ gen = NewGenerator
    /\ yielded = << >>

\* An argument check fails: ValueError, before the try block.
RaiseValueError ==
    /\ pc = "validate"
    /\ ~ArgsValid
    /\ pc' = "raised"
    /\ raised' = "ValueError"
    /\ pixel_order' = IF call.width_is_int /\ call.width > 0
                         /\ call.height_is_int /\ call.height > 0
                      THEN Upper(pixel_order) ELSE pixel_order
    /\ UNCHANGED <<call, f_opens, f_closed, f_data, gen, yielded>>

\* The argument checks pass and the sizes are computed.
Validate ==
    /\ pc = "validate"
    /\ ArgsValid
    /\ pixel_order' = Upper(pixel_order)
    /\ pc' = "open"
    /\ UNCHANGED <<call, raised, f_opens, f_closed, f_data, gen, yielded>>

\* open(filename, 'wb') creates or truncates the destination.
Open ==
    /\ pc = "open"
    /\ f_opens' = f_opens + 1
    /\ f_data' = << >>
    /\ pc' = "file_header"
    /\ UNCHANGED <<call, pixel_order, raised, f_closed, gen, yielded>>

WriteFileHeader ==
    /\ pc = "file_header"
    /\ f_data' = f_data \o FileHeaderBytes(call.width, call.height)
    /\ pc' = "info_header"
    /\ UNCHANGED <<call, pixel_order, raised, f_opens, f_closed, gen, yielded>>

WriteInfoHeader ==
    /\ pc = "info_header"
    /\ f_data' = f_data \o InfoHeaderBytes(call.width, call.height)
    /\ pc' = "rows"
    /\ UNCHANGED <<call, pixel_order, raised, f_opens, f_closed, gen, yielded>>

\* The next() the pixel loop is about to make.
Pull == GenNext(gen, call.width, call.height, call.pattern, options)

\* Variant: each row is stored right after the headers, before the rows
\* written so far.
WriteRow_Prepend ==
    /\ pc = "rows"
    /\ Pull.kind = "row"
    /\ gen' = Pull.gen
    /\ yielded' = Append(yielded, Pull.row)
    /\ f_data' = SubSeq(f_data, 1, 54) \o RowBytes(Pull.row, pixel_order, call.width)
                    \o SubSeq(f_data, 55, Len(f_data))
    /\ UNCHANGED <<call, pixel_order, pc, raised, f_opens, f_closed>>

\* One iteration of the pixel loop: pull a row, reorder, pad, write.
WriteRow ==
    /\ pc = "rows"
    /\ Pull.kind = "row"
    /\ gen' = Pull.gen
    /\ yielded' = Append(yielded, Pull.row)
    /\ f_data' = f_data \o RowBytes(Pull.row, pixel_order, call.width)
    /\ UNCHANGED <<call, pixel_order, pc, raised, f_opens, f_closed>>

\* The generator is exhausted: the with block exits and closes the file.
Finish ==
    /\ pc = "rows"
    /\ Pull.kind = "stop"
    /\ gen' = Pull.gen
    /\ f_closed' = TRUE
    /\ pc' = "done"
    /\ UNCHANGED <<call, pixel_order, raised, f_opens, f_data, yielded>>

\* Variant: the failure leaves the file open.
RowError_LeavesOpen ==
    /\ pc = "rows"
    /\ Pull.kind = "error"
    /\ raised' = "Exception"
    /\ pc' = "raised"
    /\ UNCHANGED <<call, pixel_order, f_opens, f_closed, f_data, gen, yielded>>

\* Packing a pixel fails inside the generator: the with block closes the
\* file and the struct.error is re-raised as a plain Exception.
RowError ==
    /\ pc = "rows"
    /\ Pull.kind = "error"
    /\ f_closed' = TRUE
    /\ raised' = "Exception"
    /\ pc' = "raised"
    /\ UNCHANGED <<call, pixel_order, f_opens, f_data, gen, yielded>>

\* open() or a write fails with an OSError: the with block closes the file
\* if it was opened and the error is re-raised as IOError.
IOFailure ==
    /\ pc \in {"open", "file_header", "info_header", "rows"}
    /\ f_closed' = (pc # "open")
    /\ raised' = "IOError"
    /\ pc' = "raised"
    /\ UNCHANGED <<call, pixel_order, f_opens, f_data, gen, yielded>>

Next ==
    \/ RaiseValueError
    \/ Validate
    \/ Open
    \/ WriteFileHeader
    \/ WriteInfoHeader
    \/ WriteRow
    \/ Finish
    \/ RowError
    \/ IOFailure

Spec == Init /\ [][Next]_vars

\* Widths and heights of the Checkerboard runs: 0, the sizes on either side
\* of a tile boundary, and the largest size.
CheckerSizes ==
    {n \in 0..MaxCheckerSize :
        n % CHECKER_SIZE \in {0, 1} \/ n = MaxCheckerSize}

\* Calls that draw a Checkerboard large enough to span several tiles.
InitChecker ==
    /\ \E w \in CheckerSizes, h \in CheckerSizes, o \in {"BGR", "RGB"} :
          \E opts \in OptionsFor("Checkerboard") :
             call = [width |-> w, width_is_int |-> TRUE,
                     height |-> h, height_is_int |-> TRUE,
                     pattern |-> "Checkerboard", pixel_order |-> o,
                     pattern_options |-> opts]
    /\ pixel_order = call.pixel_order
    /\ pc = "validate"
    /\ raised = "none"
    /\ f_opens = 0
    /\ f_closed = FALSE
    /\ f_data = << >>
    /\ gen = NewGenerator
    /\ yielded = << >>

SpecChecker == InitChecker /\ [][Next]_vars

(***************************************************************************)
(* Reading the destination back.                                           *)
(***************************************************************************)
\* The unsigned little-endian integer held by the n bytes of data after
\* the first `offset` bytes.
RECURSIVE DecodeLE(_, _, _)
DecodeLE(data, offset, n) ==
    IF n = 0 THEN 0
    ELSE data[offset + 1] + 256 * DecodeLE(data, offset + 1, n - 1)

\* The three bytes of column x of a row.
PixelAt(row, x) == SubSeq(row, 3 * x + 1, 3 * x + 3)

\* Row padding and padded row length as the format defines them.
FormatPadding(w) == (4 - ((w * 3) % 4)) % 4
PaddedRowBytes(w) == w * 3 + FormatPadding(w)

\* The k-th padded row of the pixel data of the destination.
EmittedRow(k) ==
    SubSeq(f_data, 54 + (k - 1) * PaddedRowBytes(call.width) + 1,
                   54 + k * PaddedRowBytes(call.width))

\* The call was given a color, for a key its pattern reads, with a channel
\* outside 0..255.
ColorOutOfRange ==
    \E k \in KeysOf(call.pattern) :
        /\ call.pattern_options[k] # Absent
        /\ \E i \in 1..3 : call.pattern_options[k][i] < 0 \/ call.pattern_options[k][i] > 255

\* The color supplied under key k, or the given default.
Supplied(k, default) ==
    IF call.pattern_options[k] = Absent THEN default ELSE call.pattern_options[k]

\* Width, height or pattern name is not acceptable.
BadDimsOrPattern ==
    \/ ~call.width_is_int \/ call.width <= 0
    \/ ~call.height_is_int \/ call.height <= 0
    \/ call.pattern \notin PATTERNS

\* The call ends with ValueError and leaves the destination untouched.
RejectedUntouched ==
    /\ f_opens = 0
    /\ f_data = << >>
    /\ pc # "validate" => (pc = "raised" /\ raised = "ValueError")

(***************************************************************************)
(* Properties.                                                             *)
(***************************************************************************)

\* C1 (as stated): a call with width <= 0, height <= 0, a non-integer
\* width or height, an unrecognised pattern name or a pixel order other
\* than "RGB"/"BGR" ends with ValueError and never opens or writes the
\* destination.
C1_RejectsAnyOtherOrder ==
    (BadDimsOrPattern \/ call.pixel_order \notin {"RGB", "BGR"}) => RejectedUntouched

\* C1 (amended): the same, for a pixel order that is not "RGB"/"BGR" after
\* upper-casing; a lower-case "rgb" is accepted.
C1_RejectsInvalidArguments ==
    (BadDimsOrPattern \/ call.pixel_order \notin {"RGB", "BGR", "rgb", "bgr"})
        => RejectedUntouched

C1_Witness ==
    /\ pc = "raised" /\ raised = "ValueError"
    /\ call.pixel_order = "XYZ"
    /\ call.width_is_int /\ call.width > 0 /\ call.height_is_int /\ call.height > 0
    /\ call.pattern \in PATTERNS

\* C2: a call given a color with a channel outside 0..255 ends with
\* ValueError before any I/O: the destination is never opened and no header
\* or pixel byte is written.
C2_ColorRangeRejectedBeforeIO ==
    ColorOutOfRange =>
        /\ f_opens = 0
        /\ f_data = << >>
        /\ pc \in {"done", "raised"} => raised = "ValueError"

\* C3: after a successful call the fileSize field of the header equals
\* 54 + height * paddedRowBytes and equals the number of bytes in the
\* destination, and paddedRowBytes is a multiple of 4.
C3_FileSize ==
    pc = "done" =>
        /\ DecodeLE(f_data, 2, 4) = 54 + call.height * PaddedRowBytes(call.width)
        /\ Len(f_data) = 54 + call.height * PaddedRowBytes(call.width)
        /\ PaddedRowBytes(call.width) % 4 = 0
        /\ padding(call.width) = FormatPadding(call.width)

C3_Witness ==
    /\ pc = "done" /\ call.width = 2 /\ call.height = 3
    /\ Len(f_data) = 78

\* C4: after a successful call the 54 header bytes decode, little-endian,
\* to "BM", reserved 0 and 0, pixel data offset 54, header size 40, the
\* width and height of the call, 1 plane, 24 bits per pixel, compression 0,
\* image size paddedRowBytes * height, and zero resolution and color counts.
C4_HeaderRoundTrip ==
    pc = "done" =>
        /\ SubSeq(f_data, 1, 2) = <<66, 77>>
        /\ DecodeLE(f_data, 6, 2) = 0
        /\ DecodeLE(f_data, 8, 2) = 0
        /\ DecodeLE(f_data, 10, 4) = 54
        /\ DecodeLE(f_data, 14, 4) = 40
        /\ DecodeLE(f_data, 18, 4) = call.width
        /\ DecodeLE(f_data, 22, 4) = call.height
        /\ DecodeLE(f_data, 26, 2) = 1
        /\ DecodeLE(f_data, 28, 2) = 24
        /\ DecodeLE(f_data, 30, 4) = 0
        /\ DecodeLE(f_data, 34, 4) = PaddedRowBytes(call.width) * call.height
        /\ DecodeLE(f_data, 38, 4) = 0
        /\ DecodeLE(f_data, 42, 4) = 0
        /\ DecodeLE(f_data, 46, 4) = 0
        /\ DecodeLE(f_data, 50, 4) = 0

C4_Witness ==
    /\ pc = "done" /\ call.width = 5 /\ call.height = 2
    /\ DecodeLE(f_data, 18, 4) = 5 /\ DecodeLE(f_data, 22, 4) = 2

\* C5: every produced row is in the destination, its pixels (R,G,B) stored
\* as (B,G,R) when the order is BGR and unchanged when it is RGB, followed
\* by exactly `padding` zero bytes; Solid Color (10,20,30), 2 x 1, BGR gives
\* the pixel data 30,20,10,30,20,10,0,0.
C5_RowEmission ==
    /\ \A k \in 1..Len(yielded) :
          /\ Len(f_data) >= 54 + k * PaddedRowBytes(call.width)
          /\ \A x \in 0..(call.width - 1) :
                LET rgb == PixelAt(yielded[k], x)
                    out == PixelAt(EmittedRow(k), x)
                IN  IF pixel_order = "BGR"
                    THEN out = <<rgb[3], rgb[2], rgb[1]>>
                    ELSE out = rgb
          /\ \A j \in 1..FormatPadding(call.width) :
                EmittedRow(k)[call.width * 3 + j] = 0
    /\ Len(yielded) > 0 => Len(f_data) = 54 + Len(yielded) * PaddedRowBytes(call.width)
    /\ ( /\ pc = "done" /\ call.pattern = "Solid Color"
         /\ call.pattern_options["color"] = <<10, 20, 30>>
         /\ call.width = 2 /\ call.height = 1 /\ pixel_order = "BGR" )
       => SubSeq(f_data, 55, Len(f_data)) = <<30, 20, 10, 30, 20, 10, 0, 0>>

C5_Witness ==
    /\ pc = "done" /\ call.pattern = "Solid Color"
    /\ call.pattern_options["color"] = <<10, 20, 30>>
    /\ call.width = 2 /\ call.height = 1 /\ call.pixel_order = "BGR"
    /\ Len(f_data) = 62

\* Every color the call supplies for its pattern has all channels in 0..255.
ColorsInRange == ~ColorOutOfRange

C7_SolidColor ==
    call.pattern = "Solid Color" =>
        \A k \in 1..Len(yielded) : \A x \in 0..(call.width - 1) :
            PixelAt(yielded[k], x) = Supplied("color", <<255, 255, 255>>)

\* C8: for RGB Stripes column x of every row has color1 when x < width//3,
\* color2 when width//3 <= x < 2*(width//3) and color3 from 2*(width//3)
\* on, with defaults red, green, blue; for width 9 and the defaults columns
\* 0-2 are red, 3-5 green, 6-8 blue.
C8_RGBStripes ==
    call.pattern = "RGB Stripes" =>
        \A k \in 1..Len(yielded) :
            /\ \A x \in 0..(call.width - 1) :
                  PixelAt(yielded[k], x) =
                      IF x < call.width \div 3 THEN Supplied("color1", <<255, 0, 0>>)
                      ELSE IF x < 2 * (call.width \div 3)
                           THEN Supplied("color2", <<0, 255, 0>>)
                           ELSE Supplied("color3", <<0, 0, 255>>)
            /\ ( /\ call.width = 9
                 /\ \A c \in {"color1", "color2", "color3"} :
                       call.pattern_options[c] = Absent )
               => yielded[k] = << 255, 0, 0, 255, 0, 0, 255, 0, 0,
                                  0, 255, 0, 0, 255, 0, 0, 255, 0,
                                  0, 0, 255, 0, 0, 255, 0, 0, 255 >>

C8_Witness ==
    /\ call.pattern = "RGB Stripes" /\ call.width = 9
    /\ \A c \in {"color1", "color2", "color3"} : call.pattern_options[c] = Absent
    /\ pc = "done" /\ call.height = 2 /\ Len(yielded) = 2
    /\ PixelAt(yielded[2], 2) = <<255, 0, 0>>
    /\ PixelAt(yielded[2], 3) = <<0, 255, 0>>
    /\ PixelAt(yielded[2], 6) = <<0, 0, 255>>

\* C9: for Vertical Gradient with height 1 every pixel of the single row,
\* and for Horizontal Gradient with width 1 the sole pixel of every row,
\* equals the end color exactly.
C9_DegenerateGradient ==
    /\ (call.pattern = "Vertical Gradient" /\ call.height = 1) =>
          \A k \in 1..Len(yielded) : \A x \in 0..(call.width - 1) :
              PixelAt(yielded[k], x) = Supplied("end_color", <<255, 255, 255>>)
    /\ (call.pattern = "Horizontal Gradient" /\ call.width = 1) =>
          \A k \in 1..Len(yielded) :
              yielded[k] = Supplied("end_color", <<255, 255, 255>>)

C9_Witness ==
    /\ call.pattern = "Vertical Gradient" /\ call.height = 1 /\ call.width = 3
    /\ call.pattern_options["start_color"] = <<200, 100, 0>>
    /\ call.pattern_options["end_color"] = <<10, 20, 30>>
    /\ Len(yielded) = 1

\* C10: for Grayscale Bars column x has the three equal channels
\* 255 - trunc(bar * 255 / 7) with bar = min(floor(x / (width / 8)), 7), and
\* the gray value never increases from one column to the next.
C10_GrayscaleBars ==
    call.pattern = "Grayscale Bars" =>
        \A k \in 1..Len(yielded) :
            /\ \A x \in 0..(call.width - 1) :
                  LET bar == IF (8 * x) \div call.width < 7
                             THEN (8 * x) \div call.width ELSE 7
                      gray == 255 - ((bar * 255) \div 7)
                  IN  PixelAt(yielded[k], x) = <<gray, gray, gray>>
            /\ \A x \in 1..(call.width - 1) :
                  yielded[k][3 * x + 1] <= yielded[k][3 * (x - 1) + 1]

C10_Witness ==
    /\ call.pattern = "Grayscale Bars" /\ call.width = 9
    /\ Len(yielded) >= 1
    /\ yielded[1][1] = 255 /\ yielded[1][25] = 0

\* The call got past validation and has ended.
EndedAfterValidation == pc \in {"done", "raised"} /\ raised # "ValueError"

\* open() itself failed: nothing was opened, written or closed.
OpenFailed ==
    /\ raised = "IOError" /\ f_opens = 0 /\ ~f_closed /\ f_data = << >>

\* C11 (as stated): every run that passes validation opens the destination
\* exactly once and has closed it when the call ends.
C11_OpenedOnceAndClosed ==
    EndedAfterValidation => (f_opens = 1 /\ f_closed)

\* C11 (amended): a run that passes validation opens the destination at
\* most once; unless open() itself fails, it has opened it exactly once and
\* closed it when the call ends, on success and after a write or row
\* failure alike.  The file is closed only at the end of the call, nothing
\* is written or reopened after the close, an ended call takes no further
\* step (no retry), and bytes once written stay (no rollback).
C11_ScopedDestination ==
    /\ [](/\ f_opens <= 1
          /\ EndedAfterValidation => ((f_opens = 1 /\ f_closed) \/ OpenFailed)
          /\ pc = "done" => (f_opens = 1 /\ f_closed /\ raised = "none")
          /\ raised = "Exception" => (f_opens = 1 /\ f_closed)
          /\ f_closed => pc \in {"done", "raised"})
    /\ [][/\ f_closed => (f_closed' /\ f_data' = f_data /\ f_opens' = f_opens)
          /\ pc \in {"done", "raised"} => UNCHANGED vars
          /\ f_opens = 1 =>
                (Len(f_data') >= Len(f_data)
                 /\ SubSeq(f_data', 1, Len(f_data)) = f_data)
          /\ pc' = "raised" => f_data' = f_data]_vars

\* A row failure midway: two rows are on disk, the file is closed.
C11_Witness ==
    /\ pc = "raised" /\ raised = "Exception"
    /\ f_opens = 1 /\ f_closed
    /\ Len(yielded) = 2
    /\ Len(f_data) = 54 + 2 * PaddedRowBytes(call.width)

\* The padded bytes the format stores for a produced row.
StoredRow(row) ==
    [i \in 1..PaddedRowBytes(call.width) |->
        IF i > 3 * call.width THEN 0
        ELSE IF pixel_order = "BGR"
             THEN row[3 * ((i - 1) \div 3) + 3 - ((i - 1) % 3)]
             ELSE row[i]]

\* C12: the bytes reach the destination in the order 14-byte file header,
\* 40-byte info header, then the rows; the k-th row written is the k-th row
\* the producer yielded (for a Vertical Gradient the first row written has
\* the start color and the last the end color: no reversal); a successful
\* run has written exactly `height` rows and nothing after them.
C12_WriteOrder ==
    /\ [](/\ pc = "file_header" => Len(f_data) = 0
          /\ pc = "info_header" =>
                (Len(f_data) = 14 /\ SubSeq(f_data, 1, 2) = <<66, 77>>)
          /\ pc \in {"rows", "done"} =>
                /\ Len(f_data) = 54 + Len(yielded) * PaddedRowBytes(call.width)
                /\ DecodeLE(f_data, 14, 4) = 40
                /\ \A k \in 1..Len(yielded) : EmittedRow(k) = StoredRow(yielded[k])
          /\ pc = "done" =>
                /\ Len(yielded) = call.height
                /\ Len(f_data) = 54 + call.height * PaddedRowBytes(call.width)
          /\ (pc = "done" /\ call.pattern = "Vertical Gradient" /\ call.height >= 2) =>
                /\ EmittedRow(1) =
                      StoredRow(PackRow([x \in 0..(call.width - 1) |->
                                  Supplied("start_color", <<0, 0, 0>>)], call.width))
                /\ EmittedRow(call.height) =
                      StoredRow(PackRow([x \in 0..(call.width - 1) |->
                                  Supplied("end_color", <<255, 255, 255>>)], call.width)))
    /\ [][/\ (pc = "file_header" /\ pc' = "info_header") => Len(f_data') = 14
          /\ (pc = "info_header" /\ pc' = "rows") =>
                (Len(f_data') = 54 /\ SubSeq(f_data', 1, 14) = f_data)
          /\ (pc = "rows" /\ Len(yielded') = Len(yielded) + 1) =>
                /\ gen'.y = gen.y + 1
                /\ Len(yielded') = gen'.y
                /\ f_data' = f_data \o StoredRow(yielded'[Len(yielded')])
          /\ pc = "rows" => SubSeq(yielded', 1, Len(yielded)) = yielded
          /\ pc = "done" => f_data' = f_data]_vars

C12_Witness ==
    /\ pc = "done" /\ call.pattern = "Vertical Gradient"
    /\ call.width = 2 /\ call.height = 3 /\ pixel_order = "RGB"
    /\ call.pattern_options["start_color"] = <<10, 20, 30>>
    /\ call.pattern_options["end_color"] = <<200, 100, 0>>
    /\ SubSeq(f_data, 55, 60) = <<10, 20, 30, 10, 20, 30>>
    /\ SubSeq(f_data, 71, 76) = <<200, 100, 0, 200, 100, 0>>

\* C13: for the Checkerboard pattern the pixel at column x of row y is
\* color1 (default white) when (x//16 + y//16) mod 2 = 0 and color2
\* (default black) when it is 1.
C13_CheckerboardParity ==
    call.pattern = "Checkerboard" =>
        \A k \in 1..Len(yielded) : \A x \in 0..(call.width - 1) :
            PixelAt(yielded[k], x) =
                IF ((x \div 16) + ((k - 1) \div 16)) % 2 = 0
                THEN Supplied("color1", <<255, 255, 255>>)
                ELSE Supplied("color2", <<0, 0, 0>>)

\* A default board of 33 x 33: the tiles at (0,0), (1,1), (2,0) are white,
\* the tiles at (1,0) and (0,1) black.
C13_Witness ==
    /\ call.pattern = "Checkerboard" /\ call.width = 33 /\ call.height = 33
    /\ call.pattern_options["color1"] = Absent
    /\ call.pattern_options["color2"] = Absent
    /\ pc = "done" /\ Len(yielded) = 33
    /\ PixelAt(yielded[1], 0) = <<255, 255, 255>>
    /\ PixelAt(yielded[1], 16) = <<0, 0, 0>>
    /\ PixelAt(yielded[1], 32) = <<255, 255, 255>>
    /\ PixelAt(yielded[17], 0) = <<0, 0, 0>>
    /\ PixelAt(yielded[17], 16) = <<255, 255, 255>>
    /\ PixelAt(yielded[33], 0) = <<255, 255, 255>>

====
